---- MODULE Spec2Model ----
(***************************************************************************)
(* Model of hyperspy/ui_registry.py: the registry of user interface        *)
(* widgets.  UI_REGISTRY has the format                                    *)
(*     {"tool_key" : {"toolkit" : <function(obj, display, **kwargs)>}}     *)
(* and TOOLKIT_REGISTRY is the set of toolkit names.  The inner dict is    *)
(* modelled as the sequence of its items in insertion order, which is the  *)
(* order in which get_gui iterates over it.                                *)
(***************************************************************************)
EXTENDS Naturals, Sequences, FiniteSets, TLC

VARIABLES
    loaded,            \* has the body of the module run to its last line
    UI_REGISTRY,       \* toolkey -> sequence of [tk, f] items
    TOOLKIT_REGISTRY,  \* set of toolkit names
    decorators,        \* closures returned by register_widget: [toolkit, toolkey]
    partials,          \* closures returned by get_partial_gui: sequence of toolkeys
    gui,               \* class -> toolkey of the gui method attached to it
    last               \* the call the caller has just made, and its outcome

vars == <<loaded, UI_REGISTRY, TOOLKIT_REGISTRY, decorators, partials, gui, last>>

---------------------------------------------------------------------------
(* Bounds of the model. *)

MaxDecorators == 2      \* decorators of register_widget the caller holds
MaxSelLen == 2          \* length of an iterable passed as `toolkit`
\* The same, where the caller also holds closures of get_partial_gui.
MaxPartials == 2        \* closures of get_partial_gui the caller holds
MaxBindDecorators == 1
MaxBindSelLen == 1

---------------------------------------------------------------------------
(* Inputs. *)

NoName == "<none>"

\* The toolkeys the module registers itself, in the order of its last lines.
ModuleToolkeys == <<"interactive_range_selector", "navigation_sliders", "load">>

\* The toolkits get_gui names when it reads the preferences: they are the
\* toolkits that register widgets.  Callers of get_gui may also name a
\* toolkit that registers nothing.
PrefToolkits == <<"ipywidgets", "traitsui">>
Toolkits == {"ipywidgets", "traitsui"}
ToolkitNames == Toolkits \cup {"qt"}

\* Toolkeys callers pass: one the module registers, and one it does not.
Toolkeys == {"load", "custom"}

\* Widget functions: f and g return, boom raises.
Functions == {"f", "g", "boom"}

Objects == {"s1"}
Kwargs == {"plain"}
Classes == {"A", "B"}

\* Values of the `toolkit` argument of get_gui: None, a string, an iterable
\* of strings, or something else (a number).
\* The iterables are the sequences of at most maxlen toolkit names.
ToolkitSeqs(maxlen) == UNION {[1..n -> ToolkitNames] : n \in 0..maxlen}
ToolkitArgs(maxlen) ==
    {[shape |-> "none", name |-> NoName, names |-> <<>>]}
    \cup {[shape |-> "str", name |-> s, names |-> <<>>] : s \in ToolkitNames}
    \cup {[shape |-> "iter", name |-> NoName, names |-> q] :
             q \in ToolkitSeqs(maxlen)}
    \cup {[shape |-> "other", name |-> NoName, names |-> <<>>]}

\* preferences.General.enable_ipywidgets_gui / enable_traitsui_gui
Preferences == [ipywidgets : BOOLEAN, traitsui : BOOLEAN]
NoPreferences == [ipywidgets |-> FALSE, traitsui |-> FALSE]

---------------------------------------------------------------------------
(* Helpers on the dict-of-dicts. *)

Range(q) == {q[i] : i \in 1..Len(q)}

\* The toolkits that have a widget under an inner dict.
Keys(items) == {items[i].tk : i \in 1..Len(items)}

\* items[toolkit], for toolkit in Keys(items).
Lookup(items, toolkit) ==
    LET i == CHOOSE j \in 1..Len(items) : items[j].tk = toolkit
    IN  items[i].f

\* Faulty variant: a toolkit that has a widget keeps it (setdefault).
SetDefault(items, toolkit, f) ==
    IF toolkit \in Keys(items) THEN items
    ELSE Append(items, [tk |-> toolkit, f |-> f])

\* items[toolkit] = f : an existing key keeps its place, a new one goes last.
SetItem(items, toolkit, f) ==
    IF toolkit \in Keys(items)
    THEN [i \in 1..Len(items) |->
             IF items[i].tk = toolkit THEN [tk |-> toolkit, f |-> f] ELSE items[i]]
    ELSE Append(items, [tk |-> toolkit, f |-> f])


---------------------------------------------------------------------------
(* The widget functions: function(obj, display, **kwargs). *)

\* Does the widget function raise when it is called?
Raises(f) == f = "boom"

\* What f(obj=self, display=display, **kwargs) returns.
WidgetResult(f, self, display, kwargs) ==
    [by |-> f, obj |-> self, display |-> display, kwargs |-> kwargs]

---------------------------------------------------------------------------
(* register_toolkey and register_widget. *)

\* Faulty variant: the check for a toolkey that is already registered is missing.
register_toolkey_overwrites(reg, toolkey) ==
    [raised |-> "none",
     reg |-> [k \in DOMAIN reg \cup {toolkey} |->
                 IF k = toolkey THEN <<>> ELSE reg[k]]]

\* register_toolkey(toolkey) on the registry reg.
register_toolkey(reg, toolkey) ==
    IF toolkey \in DOMAIN reg
    THEN [raised |-> "NameError", reg |-> reg]
    ELSE [raised |-> "none",
          reg |-> [k \in DOMAIN reg \cup {toolkey} |->
                      IF k = toolkey THEN <<>> ELSE reg[k]]]

\* Faulty variant: the module registers no toolkey of its own.
RegisterNone(reg, toolkeys, i) == reg

\* The last three lines of the module, run one after the other.
RECURSIVE RegisterAll(_, _, _)
RegisterAll(reg, toolkeys, i) ==
    IF i > Len(toolkeys) THEN reg
    ELSE RegisterAll(register_toolkey(reg, toolkeys[i]).reg, toolkeys, i + 1)

\* Faulty variant: the toolkit is added before the toolkey is checked.
register_widget_adds_first(reg, tkreg, toolkit, toolkey) ==
    IF ~(toolkey \in DOMAIN reg)
    THEN [raised |-> "NameError", tkreg |-> tkreg \cup {toolkit}, returned |-> {}]
    ELSE [raised |-> "none", tkreg |-> tkreg \cup {toolkit},
          returned |-> {[toolkit |-> toolkit, toolkey |-> toolkey]}]

\* Faulty variant: the toolkey, not the toolkit, is added to TOOLKIT_REGISTRY.
register_widget_adds_toolkey(reg, tkreg, toolkit, toolkey) ==
    IF ~(toolkey \in DOMAIN reg)
    THEN [raised |-> "NameError", tkreg |-> tkreg, returned |-> {}]
    ELSE [raised |-> "none", tkreg |-> tkreg \cup {toolkey},
          returned |-> {[toolkit |-> toolkit, toolkey |-> toolkey]}]

\* Faulty variant: TOOLKIT_REGISTRY.add(toolkit) is missing.
register_widget_forgets_toolkit(reg, tkreg, toolkit, toolkey) ==
    IF ~(toolkey \in DOMAIN reg)
    THEN [raised |-> "NameError", tkreg |-> tkreg, returned |-> {}]
    ELSE [raised |-> "none", tkreg |-> tkreg,
          returned |-> {[toolkit |-> toolkit, toolkey |-> toolkey]}]

\* register_widget(toolkit, toolkey): the check of the toolkey, the update of
\* TOOLKIT_REGISTRY, and the closure it returns.
register_widget(reg, tkreg, toolkit, toolkey) ==
    IF ~(toolkey \in DOMAIN reg)
    THEN [raised |-> "NameError", tkreg |-> tkreg, returned |-> {}]
    ELSE [raised |-> "none", tkreg |-> tkreg \cup {toolkit},
          returned |-> {[toolkit |-> toolkit, toolkey |-> toolkey]}]

\* Faulty variant: the dict of the toolkey is replaced by one with f alone.
decorator_replaces_dict(reg, d, f) ==
    [reg EXCEPT ![d.toolkey] = <<[tk |-> d.toolkit, f |-> f]>>]

\* decorator(f) of the closure d: UI_REGISTRY[toolkey][toolkit] = f.
decorator(reg, d, f) ==
    [reg EXCEPT ![d.toolkey] = SetItem(@, d.toolkit, f)]

---------------------------------------------------------------------------
(* get_gui. *)

EmptyDict == [x \in {} |-> x]

Outcome(raised, why, returned, toolkits, calls, widgets, available) ==
    [raised |-> raised, why |-> why, returned |-> returned, toolkits |-> toolkits,
     calls |-> calls, widgets |-> widgets, available |-> available]

NoOutcome == Outcome("none", "", "None", {}, <<>>, EmptyDict, {})

\* Faulty variant: the test of TOOLKIT_REGISTRY is missing.
NeverInstalled(tkreg) == FALSE

\* `if not TOOLKIT_REGISTRY`
NoToolkitInstalled(tkreg) == tkreg = {}

\* Faulty variant: the names are not checked.
AnyToolkit(tk, tkreg) == TRUE

\* `if tk in TOOLKIT_REGISTRY`
IsRegisteredToolkit(tk, tkreg) == tk \in tkreg

\* Faulty variant: the early return is missing.
NeverNothing(toolkits) == FALSE

\* `if not toolkits`, for the list built from the preferences
NothingEnabled(toolkits) == toolkits = <<>>

\* Faulty variant: a toolkey with an empty dict passes.
OnlyUnknownToolkey(reg, toolkey) == toolkey \notin DOMAIN reg

\* `if toolkey not in UI_REGISTRY or not UI_REGISTRY[toolkey]`
NoUserInterface(reg, toolkey) ==
    toolkey \notin DOMAIN reg \/ Len(reg[toolkey]) = 0

\* Faulty variant: the widgets of every toolkit are used.
EveryToolkit(tk, toolkits) == TRUE

\* Faulty variant: the test is inverted.
NotRequested(tk, toolkits) == tk \notin toolkits

\* Faulty variant: an empty set of toolkits asks for every toolkit.
RequestedOrNoneAsked(tk, toolkits) == toolkits = {} \/ tk \in toolkits

\* `if toolkit in toolkits`, in the loop over the widgets of the toolkey
Requested(tk, toolkits) == tk \in toolkits

\* Faulty variant: the `not` is missing.
UsedAndAvailable(used, available) == used # {} /\ available # {}

\* Faulty variant: the test after the loop is missing.
NeverUnavailable(used, available) == FALSE

\* `if not used_toolkits and available_toolkits`
NoneUsedSomeAvailable(used, available) == used = {} /\ available # {}

\* The loop over the iterable `toolkit`: it stops at the first name that is
\* not in TOOLKIT_REGISTRY.
RECURSIVE CollectToolkits(_, _, _, _)
CollectToolkits(tkreg, names, i, toolkits) ==
    IF i > Len(names) THEN [raised |-> FALSE, toolkits |-> toolkits]
    ELSE IF IsRegisteredToolkit(names[i], tkreg)
         THEN CollectToolkits(tkreg, names, i + 1, toolkits \cup {names[i]})
         ELSE [raised |-> TRUE, toolkits |-> toolkits]

\* The toolkits the preferences enable, as the list get_gui builds.
EnabledToolkits(prefs) ==
    (IF prefs.ipywidgets THEN <<PrefToolkits[1]>> ELSE <<>>)
    \o (IF prefs.traitsui THEN <<PrefToolkits[2]>> ELSE <<>>)

\* Faulty variant: the loop goes on after a widget function has raised.
RECURSIVE RunWidgetsGoesOn(_, _, _, _, _, _, _)
RunWidgetsGoesOn(items, i, toolkits, self, display, kwargs, acc) ==
    IF i > Len(items) THEN acc
    ELSE LET tk == items[i].tk
             f == items[i].f
             call == [tk |-> tk, f |-> f, obj |-> self, display |-> display,
                      kwargs |-> kwargs]
         IN  IF tk \in toolkits
             THEN RunWidgetsGoesOn(items, i + 1, toolkits, self, display, kwargs,
                    [acc EXCEPT
                       !.used = @ \cup {tk},
                       !.calls = Append(@, call),
                       !.raised = @ \/ Raises(f),
                       !.widgets =
                          IF ~display /\ ~Raises(f)
                          THEN [x \in DOMAIN @ \cup {tk} |->
                                  IF x = tk
                                  THEN WidgetResult(f, self, display, kwargs)
                                  ELSE @[x]]
                          ELSE @])
             ELSE RunWidgetsGoesOn(items, i + 1, toolkits, self, display, kwargs,
                    [acc EXCEPT !.available = @ \cup {tk}])

\* The loop over UI_REGISTRY[toolkey].items(), from item i on.
RECURSIVE RunWidgets(_, _, _, _, _, _, _)
RunWidgets(items, i, toolkits, self, display, kwargs, acc) ==
    IF i > Len(items) THEN acc
    ELSE LET tk == items[i].tk
             f == items[i].f
             call == [tk |-> tk, f |-> f, obj |-> self, display |-> display,
                      kwargs |-> kwargs]
         IN  IF Requested(tk, toolkits)
             THEN IF Raises(f)
                  THEN [acc EXCEPT !.used = @ \cup {tk},
                                   !.calls = Append(@, call),
                                   !.raised = TRUE]
                  ELSE RunWidgets(items, i + 1, toolkits, self, display, kwargs,
                         [acc EXCEPT
                            !.used = @ \cup {tk},
                            !.calls = Append(@, call),
                            !.widgets =
                               IF ~display
                               THEN [x \in DOMAIN @ \cup {tk} |->
                                       IF x = tk
                                       THEN WidgetResult(f, self, display, kwargs)
                                       ELSE @[x]]
                               ELSE @])
             ELSE RunWidgets(items, i + 1, toolkits, self, display, kwargs,
                    [acc EXCEPT !.available = @ \cup {tk}])

\* get_gui from the point where `toolkits` is known.
Dispatch(reg, toolkits, self, toolkey, display, kwargs) ==
    IF NoUserInterface(reg, toolkey)
    THEN Outcome("NotImplementedError", "no_ui_registered", "-", toolkits,
                 <<>>, EmptyDict, {})
    ELSE LET r == RunWidgets(reg[toolkey], 1, toolkits, self, display, kwargs,
                    [used |-> {}, available |-> {}, calls |-> <<>>,
                     widgets |-> EmptyDict, raised |-> FALSE])
         IN  IF r.raised
             THEN Outcome("WidgetError", "widget_raised", "-", toolkits,
                          r.calls, EmptyDict, {})
             ELSE IF NoneUsedSomeAvailable(r.used, r.available)
             THEN Outcome("NotImplementedError", "toolkits_not_available", "-",
                          toolkits, r.calls, EmptyDict, r.available)
             ELSE IF ~display
             THEN Outcome("none", "", "widgets", toolkits, r.calls, r.widgets, {})
             ELSE Outcome("none", "", "None", toolkits, r.calls, EmptyDict, {})

\* Faulty variant: the toolkits the preferences enable are looked up in
\* TOOLKIT_REGISTRY like the ones the caller names.
get_gui_validates_preferences(reg, tkreg, prefs, self, toolkey, display, toolkit, kwargs) ==
    IF NoToolkitInstalled(tkreg)
    THEN Outcome("ImportError", "no_toolkit_installed", "-", {}, <<>>, EmptyDict, {})
    ELSE IF toolkit.shape \in {"str", "iter", "none"}
    THEN LET names == IF toolkit.shape = "str" THEN <<toolkit.name>>
                      ELSE IF toolkit.shape = "iter" THEN toolkit.names
                      ELSE EnabledToolkits(prefs)
             c == CollectToolkits(tkreg, names, 1, {})
         IN  IF toolkit.shape = "none" /\ NothingEnabled(names)
             THEN Outcome("none", "", "None", {}, <<>>, EmptyDict, {})
             ELSE IF c.raised
             THEN Outcome("ValueError", "not_a_registered_toolkit", "-", {}, <<>>,
                          EmptyDict, {})
             ELSE Dispatch(reg, c.toolkits, self, toolkey, display, kwargs)
    ELSE Outcome("ValueError", "bad_toolkit_argument", "-", {}, <<>>, EmptyDict, {})

\* get_gui(self, toolkey, display, toolkit, **kwargs) with the registries reg
\* and tkreg and the preferences prefs.
get_gui(reg, tkreg, prefs, self, toolkey, display, toolkit, kwargs) ==
    IF NoToolkitInstalled(tkreg)
    THEN Outcome("ImportError", "no_toolkit_installed", "-", {}, <<>>, EmptyDict, {})
    ELSE IF toolkit.shape \in {"str", "iter"}
    THEN LET names == IF toolkit.shape = "str" THEN <<toolkit.name>>
                      ELSE toolkit.names
             c == CollectToolkits(tkreg, names, 1, {})
         IN  IF c.raised
             THEN Outcome("ValueError", "not_a_registered_toolkit", "-", {}, <<>>,
                          EmptyDict, {})
             ELSE Dispatch(reg, c.toolkits, self, toolkey, display, kwargs)
    ELSE IF toolkit.shape = "none"
    THEN LET toolkits == EnabledToolkits(prefs)
         IN  IF NothingEnabled(toolkits)
             THEN Outcome("none", "", "None", {}, <<>>, EmptyDict, {})
             ELSE Dispatch(reg, Range(toolkits), self, toolkey, display, kwargs)
    ELSE Outcome("ValueError", "bad_toolkit_argument", "-", {}, <<>>, EmptyDict, {})

\* Faulty variant: pg leaves `display` at its default.
pg_default_display(reg, tkreg, prefs, toolkey, self, display, toolkit, kwargs) ==
    get_gui(reg, tkreg, prefs, self, toolkey, TRUE, toolkit, kwargs)

\* The closure pg of get_partial_gui(toolkey).
pg(reg, tkreg, prefs, toolkey, self, display, toolkit, kwargs) ==
    get_gui(reg, tkreg, prefs, self, toolkey, display, toolkit, kwargs)

---------------------------------------------------------------------------
(* The state machine: a caller makes one call at a time and takes its      *)
(* outcome before making the next one.                                     *)

NoToolkey == "<no toolkey>"

Idle == [op |-> "idle", args |-> <<>>, raised |-> "none", out |-> NoOutcome]

Done(op, args, raised, out) ==
    [op |-> op, args |-> args, raised |-> raised, out |-> out]

Init ==
    /\ loaded = FALSE
    /\ UI_REGISTRY = EmptyDict
    /\ TOOLKIT_REGISTRY = {}
    /\ decorators = {}
    /\ partials = <<>>
    /\ gui = [c \in Classes |-> NoToolkey]
    /\ last = Idle

\* The module is imported: its body runs down to the three register_toolkey
\* calls that end it.
Import ==
    /\ ~loaded
    /\ loaded' = TRUE
    /\ UI_REGISTRY' = RegisterAll(UI_REGISTRY, ModuleToolkeys, 1)
    /\ last' = Done("import", <<>>, "none", NoOutcome)
    /\ UNCHANGED <<TOOLKIT_REGISTRY, decorators, partials, gui>>

Ready == loaded /\ last.op = "idle"

\* register_toolkey(toolkey)
CallRegisterToolkey(toolkey) ==
    /\ Ready
    /\ LET r == register_toolkey(UI_REGISTRY, toolkey)
       IN  /\ UI_REGISTRY' = r.reg
           /\ last' = Done("register_toolkey", [toolkey |-> toolkey], r.raised,
                           NoOutcome)
    /\ UNCHANGED <<loaded, TOOLKIT_REGISTRY, decorators, partials, gui>>

\* register_widget(toolkit, toolkey): the caller keeps the decorator it gets.
CallRegisterWidget(toolkit, toolkey) ==
    /\ Ready
    /\ LET r == register_widget(UI_REGISTRY, TOOLKIT_REGISTRY, toolkit, toolkey)
       IN  /\ TOOLKIT_REGISTRY' = r.tkreg
           /\ decorators' = decorators \cup r.returned
           /\ last' = Done("register_widget",
                           [toolkit |-> toolkit, toolkey |-> toolkey], r.raised,
                           NoOutcome)
    /\ UNCHANGED <<loaded, UI_REGISTRY, partials, gui>>

\* decorator(f), for a decorator d that register_widget returned.
CallDecorator(d, f) ==
    /\ Ready
    /\ d \in decorators
    /\ UI_REGISTRY' = decorator(UI_REGISTRY, d, f)
    /\ last' = Done("decorator",
                    [toolkit |-> d.toolkit, toolkey |-> d.toolkey, f |-> f,
                     replaced |-> IF d.toolkit \in Keys(UI_REGISTRY[d.toolkey])
                                  THEN Lookup(UI_REGISTRY[d.toolkey], d.toolkit)
                                  ELSE NoName],
                    "none", NoOutcome)
    /\ UNCHANGED <<loaded, TOOLKIT_REGISTRY, decorators, partials, gui>>

\* The preferences are read only when `toolkit` is None.
PreferencesRead(toolkit) ==
    IF toolkit.shape = "none" THEN Preferences ELSE {NoPreferences}

GuiArgs(self, toolkey, display, toolkit, kwargs, prefs) ==
    [obj |-> self, toolkey |-> toolkey, display |-> display, toolkit |-> toolkit,
     kwargs |-> kwargs, prefs |-> prefs]

\* Faulty variant: looking up a toolkey that is not registered creates an
\* empty dict for it (UI_REGISTRY as a defaultdict).
CallGetGuiCreatesToolkey(self, toolkey, display, toolkit, kwargs) ==
    /\ Ready
    /\ \E prefs \in PreferencesRead(toolkit) :
         LET out == get_gui(UI_REGISTRY, TOOLKIT_REGISTRY, prefs, self, toolkey,
                            display, toolkit, kwargs)
         IN  /\ last' = Done("get_gui",
                             GuiArgs(self, toolkey, display, toolkit, kwargs, prefs),
                             out.raised, out)
             /\ UI_REGISTRY' =
                   IF out.why = "no_ui_registered"
                   THEN [k \in DOMAIN UI_REGISTRY \cup {toolkey} |->
                           IF k \in DOMAIN UI_REGISTRY THEN UI_REGISTRY[k] ELSE <<>>]
                   ELSE UI_REGISTRY
    /\ UNCHANGED <<loaded, TOOLKIT_REGISTRY, decorators, partials, gui>>

\* get_gui(self, toolkey, display, toolkit, **kwargs)
CallGetGui(self, toolkey, display, toolkit, kwargs) ==
    /\ Ready
    /\ \E prefs \in PreferencesRead(toolkit) :
         LET out == get_gui(UI_REGISTRY, TOOLKIT_REGISTRY, prefs, self, toolkey,
                            display, toolkit, kwargs)
         IN  last' = Done("get_gui",
                          GuiArgs(self, toolkey, display, toolkit, kwargs, prefs),
                          out.raised, out)
    /\ UNCHANGED <<loaded, UI_REGISTRY, TOOLKIT_REGISTRY, decorators, partials, gui>>

\* get_partial_gui(toolkey): the caller keeps the closure it gets.
CallGetPartialGui(toolkey) ==
    /\ Ready
    /\ partials' = Append(partials, toolkey)
    /\ last' = Done("get_partial_gui", [toolkey |-> toolkey], "none", NoOutcome)
    /\ UNCHANGED <<loaded, UI_REGISTRY, TOOLKIT_REGISTRY, decorators, gui>>

\* pg(self, display, toolkit, **kwargs), for the closure in slot i.
CallPg(i, self, display, toolkit, kwargs) ==
    /\ Ready
    /\ i \in 1..Len(partials)
    /\ \E prefs \in PreferencesRead(toolkit) :
         LET out == pg(UI_REGISTRY, TOOLKIT_REGISTRY, prefs, partials[i], self,
                       display, toolkit, kwargs)
         IN  last' = Done("pg",
                          [slot |-> i,
                           call |-> GuiArgs(self, partials[i], display, toolkit,
                                            kwargs, prefs)],
                          out.raised, out)
    /\ UNCHANGED <<loaded, UI_REGISTRY, TOOLKIT_REGISTRY, decorators, partials, gui>>

\* add_gui_method(toolkey)(cls): the class decorator registers the toolkey
\* and then sets cls.gui.
add_gui_method(reg, methods, toolkey, cls) ==
    LET r == register_toolkey(reg, toolkey)
    IN  IF r.raised # "none"
        THEN [raised |-> r.raised, reg |-> reg, gui |-> methods]
        ELSE [raised |-> "none", reg |-> r.reg,
              gui |-> [methods EXCEPT ![cls] = toolkey]]

CallAddGuiMethod(toolkey, cls) ==
    /\ Ready
    /\ LET r == add_gui_method(UI_REGISTRY, gui, toolkey, cls)
       IN  /\ UI_REGISTRY' = r.reg
           /\ gui' = r.gui
           /\ last' = Done("add_gui_method", [toolkey |-> toolkey, cls |-> cls],
                           r.raised, NoOutcome)
    /\ UNCHANGED <<loaded, TOOLKIT_REGISTRY, decorators, partials>>

\* obj.gui(display, toolkit, **kwargs), for an object of a class that has
\* the method.
CallGui(cls, self, display, toolkit, kwargs) ==
    /\ Ready
    /\ gui[cls] # NoToolkey
    /\ \E prefs \in PreferencesRead(toolkit) :
         LET out == pg(UI_REGISTRY, TOOLKIT_REGISTRY, prefs, gui[cls], self,
                       display, toolkit, kwargs)
         IN  last' = Done("gui",
                          [cls |-> cls,
                           call |-> GuiArgs(self, gui[cls], display, toolkit,
                                            kwargs, prefs)],
                          out.raised, out)
    /\ UNCHANGED <<loaded, UI_REGISTRY, TOOLKIT_REGISTRY, decorators, partials, gui>>

\* The caller has taken the outcome of its call.
Return ==
    /\ last.op # "idle"
    /\ last' = Idle
    /\ UNCHANGED <<loaded, UI_REGISTRY, TOOLKIT_REGISTRY, decorators, partials, gui>>

\* The calls on the registry that both specifications make.
Registration ==
    \/ Import
    \/ \E toolkey \in Toolkeys : CallRegisterToolkey(toolkey)
    \/ \E d \in decorators, f \in Functions : CallDecorator(d, f)
    \/ \E toolkey \in Toolkeys, cls \in Classes : CallAddGuiMethod(toolkey, cls)
    \/ Return

\* A caller that registers widgets and asks for them, through get_gui or
\* through the gui method of a class.
Next ==
    \/ Registration
    \/ \E toolkit \in Toolkits, toolkey \in Toolkeys :
          /\ CallRegisterWidget(toolkit, toolkey)
          /\ Cardinality(decorators') <= MaxDecorators
    \/ \E self \in Objects, toolkey \in Toolkeys, display \in BOOLEAN,
          toolkit \in ToolkitArgs(MaxSelLen), kwargs \in Kwargs :
          CallGetGui(self, toolkey, display, toolkit, kwargs)
    \/ \E cls \in Classes, self \in Objects, display \in BOOLEAN,
          toolkit \in ToolkitArgs(MaxSelLen), kwargs \in Kwargs :
          CallGui(cls, self, display, toolkit, kwargs)

Spec == Init /\ [][Next]_vars

\* A caller that also keeps closures of get_partial_gui and calls them.
NextBind ==
    \/ Registration
    \/ \E toolkit \in Toolkits, toolkey \in Toolkeys :
          /\ CallRegisterWidget(toolkit, toolkey)
          /\ Cardinality(decorators') <= MaxBindDecorators
    \/ \E toolkey \in Toolkeys :
          /\ CallGetPartialGui(toolkey)
          /\ Len(partials') <= MaxPartials
    \/ \E i \in 1..MaxPartials, self \in Objects, display \in BOOLEAN,
          toolkit \in ToolkitArgs(MaxBindSelLen), kwargs \in Kwargs :
          CallPg(i, self, display, toolkit, kwargs)
    \/ \E cls \in Classes, self \in Objects, display \in BOOLEAN,
          toolkit \in ToolkitArgs(MaxBindSelLen), kwargs \in Kwargs :
          CallGui(cls, self, display, toolkit, kwargs)

SpecBind == Init /\ [][NextBind]_vars

---------------------------------------------------------------------------
(* Properties. *)

\* The call the caller has just made.
Made(op) == last.op = op

\* The toolkits an explicit `toolkit` argument names.
Named(toolkit) ==
    IF toolkit.shape = "str" THEN {toolkit.name} ELSE Range(toolkit.names)

Explicit(toolkit) == toolkit.shape \in {"str", "iter"}

\* The toolkits that have a widget under the toolkey.
WidgetToolkits(toolkey) ==
    IF toolkey \in DOMAIN UI_REGISTRY THEN Keys(UI_REGISTRY[toolkey]) ELSE {}

\* C1: register_toolkey(k) for a k that is not registered succeeds and gives
\* k an empty dict of widgets, leaving the other toolkeys alone; for a k that
\* is registered it raises NameError and leaves UI_REGISTRY (the widgets
\* under k with it) and TOOLKIT_REGISTRY as they were; and a toolkey once
\* registered stays registered, so every later register_toolkey(k) fails.
C1_RegisterToolkeyOnce ==
    [][ /\ DOMAIN UI_REGISTRY \subseteq DOMAIN UI_REGISTRY'
        /\ last'.op = "register_toolkey" =>
             LET k == last'.args.toolkey
             IN  IF k \in DOMAIN UI_REGISTRY
                 THEN /\ last'.raised = "NameError"
                      /\ UI_REGISTRY' = UI_REGISTRY
                      /\ TOOLKIT_REGISTRY' = TOOLKIT_REGISTRY
                 ELSE /\ last'.raised = "none"
                      /\ DOMAIN UI_REGISTRY' = DOMAIN UI_REGISTRY \cup {k}
                      /\ Len(UI_REGISTRY'[k]) = 0
                      /\ \A j \in DOMAIN UI_REGISTRY :
                            UI_REGISTRY'[j] = UI_REGISTRY[j]
                      /\ TOOLKIT_REGISTRY' = TOOLKIT_REGISTRY ]_vars

\* A second register_toolkey("custom") has failed, and the widget stored
\* under "custom" in between is still there.
C1_Witness ==
    /\ Made("register_toolkey")
    /\ last.args.toolkey = "custom"
    /\ last.raised = "NameError"
    /\ Len(UI_REGISTRY["custom"]) > 0

\* C2: register_widget(b, k) for a k that is not registered raises NameError
\* in the call itself: it returns no decorator, stores no widget, creates no
\* entry for k and does not add b to TOOLKIT_REGISTRY.
C2_RegisterWidgetUnknownToolkey ==
    [][ (last'.op = "register_widget"
         /\ last'.args.toolkey \notin DOMAIN UI_REGISTRY) =>
           /\ last'.raised = "NameError"
           /\ decorators' = decorators
           /\ UI_REGISTRY' = UI_REGISTRY
           /\ TOOLKIT_REGISTRY' = TOOLKIT_REGISTRY ]_vars

\* register_widget("traitsui", "custom") has failed while another toolkit is
\* registered: "traitsui" is still unknown.
C2_Witness ==
    /\ Made("register_widget")
    /\ last.raised = "NameError"
    /\ last.args.toolkey \notin DOMAIN UI_REGISTRY
    /\ TOOLKIT_REGISTRY # {}
    /\ last.args.toolkit \notin TOOLKIT_REGISTRY

\* C3: every toolkit with a widget under some toolkey is in
\* TOOLKIT_REGISTRY; and when get_gui(obj, k, display=False, toolkit) with a
\* string or an iterable as `toolkit` returns, it returns a dict whose keys
\* are exactly the named toolkits that have a widget under k, each mapped to
\* what the widget function now stored for it returns for
\* (obj, display=False, **kwargs).
C3_WidgetsOfNamedToolkits ==
    /\ \A k \in DOMAIN UI_REGISTRY : Keys(UI_REGISTRY[k]) \subseteq TOOLKIT_REGISTRY
    /\ (Made("get_gui") /\ last.raised = "none" /\ ~last.args.display
        /\ Explicit(last.args.toolkit)) =>
          LET a == last.args
              R == Named(a.toolkit)
          IN  /\ last.out.returned = "widgets"
              /\ a.toolkey \in DOMAIN UI_REGISTRY
              /\ DOMAIN last.out.widgets = R \cap Keys(UI_REGISTRY[a.toolkey])
              /\ \A b \in DOMAIN last.out.widgets :
                    last.out.widgets[b] =
                       WidgetResult(Lookup(UI_REGISTRY[a.toolkey], b), a.obj,
                                    FALSE, a.kwargs)

\* get_gui has returned a dict with the widget of one toolkit although the
\* iterable named two: the one without a widget under the toolkey is left
\* out.
C3_Witness ==
    /\ Made("get_gui") /\ last.raised = "none" /\ ~last.args.display
    /\ last.args.toolkit.shape = "iter"
    /\ Cardinality(DOMAIN last.out.widgets) = 1
    /\ Cardinality(Named(last.args.toolkit)) = 2

\* C4: while TOOLKIT_REGISTRY is empty every get_gui call raises ImportError
\* and calls no widget function, whatever the toolkey and the `toolkit`.
C4_NoToolkitInstalled ==
    (Made("get_gui") /\ TOOLKIT_REGISTRY = {}) =>
       /\ last.raised = "ImportError"
       /\ last.out.calls = <<>>

\* get_gui has raised ImportError for a registered toolkey and a `toolkit`
\* that is neither a string, an iterable nor None.
C4_Witness ==
    /\ Made("get_gui") /\ TOOLKIT_REGISTRY = {}
    /\ last.raised = "ImportError"
    /\ last.args.toolkit.shape = "other"
    /\ last.args.toolkey \in DOMAIN UI_REGISTRY

\* C5: while TOOLKIT_REGISTRY is not empty, get_gui with a string or an
\* iterable naming a toolkit that is not in it raises the ValueError "not a
\* registered toolkit", for every toolkey, and calls no widget function.
C5_UnknownToolkit ==
    (Made("get_gui") /\ TOOLKIT_REGISTRY # {} /\ Explicit(last.args.toolkit)
     /\ ~(Named(last.args.toolkit) \subseteq TOOLKIT_REGISTRY)) =>
       /\ last.raised = "ValueError"
       /\ last.out.why = "not_a_registered_toolkit"
       /\ last.out.calls = <<>>

\* get_gui has raised it for an iterable whose first name is a toolkit with
\* a widget under the toolkey.
C5_Witness ==
    /\ Made("get_gui") /\ last.raised = "ValueError"
    /\ last.args.toolkit.shape = "iter"
    /\ Len(last.args.toolkit.names) = 2
    /\ last.args.toolkit.names[1] \in WidgetToolkits(last.args.toolkey)
    /\ last.args.toolkit.names[2] \notin TOOLKIT_REGISTRY

\* The toolkits a get_gui call asks for once `toolkits` is built: those the
\* string or the iterable names, or those the preferences enable.
Asked(a) ==
    IF Explicit(a.toolkit) THEN Named(a.toolkit)
    ELSE Range(EnabledToolkits(a.prefs))

\* Has the call got past the building of `toolkits` (no ImportError, no
\* ValueError, no early return)?
Resolved(a) ==
    /\ TOOLKIT_REGISTRY # {}
    /\ \/ Explicit(a.toolkit) /\ Named(a.toolkit) \subseteq TOOLKIT_REGISTRY
       \/ a.toolkit.shape = "none" /\ Asked(a) # {}

\* C6: when every toolkit asked for is in TOOLKIT_REGISTRY and none of them
\* has a widget under the toolkey, while some other toolkit has one, get_gui
\* raises the NotImplementedError "toolkits are not available", which names
\* as available exactly the toolkits that have a widget under the toolkey,
\* and it calls no widget function.
C6_ToolkitsNotAvailable ==
    (Made("get_gui") /\ Resolved(last.args)
     /\ Asked(last.args) \subseteq TOOLKIT_REGISTRY
     /\ Asked(last.args) \cap WidgetToolkits(last.args.toolkey) = {}
     /\ WidgetToolkits(last.args.toolkey) # {}) =>
       /\ last.raised = "NotImplementedError"
       /\ last.out.why = "toolkits_not_available"
       /\ last.out.available = WidgetToolkits(last.args.toolkey)
       /\ last.out.calls = <<>>

\* get_gui(toolkit="traitsui") has raised it for a toolkey that only
\* "ipywidgets" has a widget for.
C6_Witness ==
    /\ Made("get_gui")
    /\ last.args.toolkit.shape = "str"
    /\ last.args.toolkit.name = "traitsui"
    /\ last.out.why = "toolkits_not_available"
    /\ last.out.available = {"ipywidgets"}

\* C7: when `toolkits` is built and not empty (a string or an iterable of
\* registered toolkits, or preferences that enable a toolkit) and the
\* toolkey is not registered or has no widget, get_gui raises the
\* NotImplementedError "no user interface registered", with display true or
\* false, and calls no widget function.
C7_NoUserInterface ==
    (Made("get_gui") /\ Resolved(last.args) /\ Asked(last.args) # {}
     /\ WidgetToolkits(last.args.toolkey) = {}) =>
       /\ last.raised = "NotImplementedError"
       /\ last.out.why = "no_ui_registered"
       /\ last.out.calls = <<>>

\* get_gui(display=True) has raised it for a registered toolkey without
\* widgets, the toolkits coming from the preferences.
C7_Witness ==
    /\ Made("get_gui")
    /\ last.out.why = "no_ui_registered"
    /\ last.args.display
    /\ last.args.toolkit.shape = "none"
    /\ last.args.toolkey \in DOMAIN UI_REGISTRY

\* C8: when TOOLKIT_REGISTRY is not empty, `toolkit` is None and the
\* preferences enable no toolkit, get_gui returns None without raising, for
\* every toolkey and both values of display, and calls no widget function.
C8_NothingEnabled ==
    (Made("get_gui") /\ TOOLKIT_REGISTRY # {}
     /\ last.args.toolkit.shape = "none"
     /\ ~last.args.prefs.ipywidgets /\ ~last.args.prefs.traitsui) =>
       /\ last.raised = "none"
       /\ last.out.returned = "None"
       /\ last.out.calls = <<>>

\* get_gui(display=False) has returned None for a toolkey that has widgets.
C8_Witness ==
    /\ Made("get_gui") /\ last.raised = "none"
    /\ last.args.toolkit.shape = "none"
    /\ ~last.args.prefs.ipywidgets /\ ~last.args.prefs.traitsui
    /\ ~last.args.display
    /\ last.out.returned = "None"
    /\ WidgetToolkits(last.args.toolkey) # {}

\* C9, as claimed: every toolkit in TOOLKIT_REGISTRY has a widget stored
\* under some toolkey.
C9_KnownToolkitsHaveWidgets ==
    \A b \in TOOLKIT_REGISTRY :
       \E k \in DOMAIN UI_REGISTRY : b \in Keys(UI_REGISTRY[k])

\* C9, amended: every toolkit in TOOLKIT_REGISTRY is the toolkit of a
\* decorator that register_widget has returned for a registered toolkey: the
\* name is added by the register_widget call, applied or not its decorator.
C9_KnownToolkitsWereRegistered ==
    \A b \in TOOLKIT_REGISTRY :
       \E d \in decorators : d.toolkit = b /\ d.toolkey \in DOMAIN UI_REGISTRY

\* register_widget has returned a decorator for a toolkit that has no widget
\* under any toolkey, and the toolkit is in TOOLKIT_REGISTRY.
C9_Witness ==
    /\ Made("register_widget") /\ last.raised = "none"
    /\ last.args.toolkit \in TOOLKIT_REGISTRY
    /\ \A k \in DOMAIN UI_REGISTRY : last.args.toolkit \notin Keys(UI_REGISTRY[k])

\* C10, as claimed: binding a toolkey a second time succeeds, by
\* get_partial_gui and by add_gui_method alike, and what is bound does what
\* get_gui does for that toolkey.
C10_SecondBindingSucceeds ==
    /\ Made("get_partial_gui") => last.raised = "none"
    /\ (Made("add_gui_method") /\ \E c \in Classes : gui[c] = last.args.toolkey) =>
          last.raised = "none"
    /\ Made("pg") =>
          last.out = get_gui(UI_REGISTRY, TOOLKIT_REGISTRY, last.args.call.prefs,
                             last.args.call.obj, partials[last.args.slot],
                             last.args.call.display, last.args.call.toolkit,
                             last.args.call.kwargs)
    /\ Made("gui") =>
          last.out = get_gui(UI_REGISTRY, TOOLKIT_REGISTRY, last.args.call.prefs,
                             last.args.call.obj, gui[last.args.cls],
                             last.args.call.display, last.args.call.toolkit,
                             last.args.call.kwargs)

\* C10, amended: get_partial_gui(k) always succeeds, and each closure it
\* returned, called with (obj, display, toolkit, kwargs), does what
\* get_gui(obj, k, display, toolkit, kwargs) does, as does every other
\* closure made for the same k and the gui method of a class bound to k;
\* add_gui_method(k)(cls) registers k first, so it succeeds, and sets
\* cls.gui, only for a k that is not registered, and otherwise raises
\* NameError and changes nothing.
C10_BoundLikeGetGui ==
    [][ /\ last'.op = "get_partial_gui" =>
             /\ last'.raised = "none"
             /\ partials' = Append(partials, last'.args.toolkey)
        /\ last'.op = "pg" =>
             LET a == last'.args.call
                 direct == get_gui(UI_REGISTRY, TOOLKIT_REGISTRY, a.prefs, a.obj,
                                   partials[last'.args.slot], a.display,
                                   a.toolkit, a.kwargs)
             IN  /\ last'.out = direct
                 /\ \A j \in 1..Len(partials) :
                       partials[j] = partials[last'.args.slot] =>
                          pg(UI_REGISTRY, TOOLKIT_REGISTRY, a.prefs, partials[j],
                             a.obj, a.display, a.toolkit, a.kwargs) = direct
        /\ last'.op = "gui" =>
             LET a == last'.args.call
             IN  last'.out = get_gui(UI_REGISTRY, TOOLKIT_REGISTRY, a.prefs,
                                     a.obj, gui[last'.args.cls], a.display,
                                     a.toolkit, a.kwargs)
        /\ last'.op = "add_gui_method" =>
             LET k == last'.args.toolkey
             IN  IF k \in DOMAIN UI_REGISTRY
                 THEN /\ last'.raised = "NameError"
                      /\ gui' = gui
                      /\ UI_REGISTRY' = UI_REGISTRY
                 ELSE /\ last'.raised = "none"
                      /\ gui' = [gui EXCEPT ![last'.args.cls] = k]
                      /\ k \in DOMAIN UI_REGISTRY' ]_vars

\* The second of two closures made for the same toolkey has returned a dict
\* with a widget.
C10_Witness ==
    /\ Made("pg") /\ last.args.slot = 2
    /\ partials[1] = partials[2]
    /\ last.out.returned = "widgets"
    /\ DOMAIN last.out.widgets # {}

\* C11: when a get_gui call gets past the building of `toolkits` and
\* returns, with display true or false, it has called once, with
\* (obj, display, **kwargs), the widget function stored under the toolkey
\* for each toolkit that is asked for and has one, and no other function;
\* and with display true it returns None.
C11_EachRequestedWidgetOnce ==
    (Made("get_gui") /\ last.raised = "none" /\ Resolved(last.args)) =>
       LET a == last.args
           calls == last.out.calls
           both == Asked(a) \cap WidgetToolkits(a.toolkey)
       IN  /\ Len(calls) = Cardinality(both)
           /\ \A b \in both :
                 \E i \in 1..Len(calls) :
                    calls[i] = [tk |-> b,
                                f |-> Lookup(UI_REGISTRY[a.toolkey], b),
                                obj |-> a.obj, display |-> a.display,
                                kwargs |-> a.kwargs]
           /\ a.display =>
                 last.out.returned = "None" /\ last.out.widgets = EmptyDict

\* get_gui(display=True) has returned None after calling the widget function
\* of one of the two toolkits that have a widget under the toolkey.
C11_Witness ==
    /\ Made("get_gui") /\ last.raised = "none" /\ last.args.display
    /\ Len(last.out.calls) = 1
    /\ Cardinality(WidgetToolkits(last.args.toolkey)) = 2
    /\ last.out.returned = "None"

\* C12: the dict that get_gui(display=False) returns is never empty.
C12_WidgetsNeverEmpty ==
    (Made("get_gui") /\ last.out.returned = "widgets") =>
       DOMAIN last.out.widgets # {}

\* get_gui(display=False) has returned a dict with one widget for a toolkey
\* that has the widgets of two toolkits.
C12_Witness ==
    /\ Made("get_gui") /\ last.out.returned = "widgets"
    /\ Cardinality(DOMAIN last.out.widgets) = 1
    /\ Cardinality(WidgetToolkits(last.args.toolkey)) = 2

\* The items of the toolkey whose toolkit the call asks for, in the order of
\* the dict.
Matched(a) ==
    LET IsAsked(item) == item.tk \in Asked(a)
    IN  IF a.toolkey \in DOMAIN UI_REGISTRY
        THEN SelectSeq(UI_REGISTRY[a.toolkey], IsAsked)
        ELSE <<>>

\* C13: when a get_gui call gets past the building of `toolkits` and one of
\* the widget functions it is to call raises, get_gui raises that error: it
\* has called the functions before the first one that raises, in the order
\* of the dict, and that one, and none after it; it returns no dict; and
\* UI_REGISTRY and TOOLKIT_REGISTRY are as before the call.
C13_RaisingWidgetAborts ==
    [][ (last'.op = "get_gui" /\ Resolved(last'.args)
         /\ \E j \in 1..Len(Matched(last'.args)) :
               Raises(Matched(last'.args)[j].f)) =>
           LET m == Matched(last'.args)
               n == CHOOSE j \in 1..Len(m) :
                       /\ Raises(m[j].f)
                       /\ \A h \in 1..(j - 1) : ~Raises(m[h].f)
               calls == last'.out.calls
           IN  /\ last'.raised = "WidgetError"
               /\ last'.out.why = "widget_raised"
               /\ Len(calls) = n
               /\ \A j \in 1..n : calls[j].tk = m[j].tk /\ calls[j].f = m[j].f
               /\ last'.out.returned = "-"
               /\ last'.out.widgets = EmptyDict
               /\ UI_REGISTRY' = UI_REGISTRY
               /\ TOOLKIT_REGISTRY' = TOOLKIT_REGISTRY ]_vars

\* get_gui has raised the error of the first of two widget functions it was
\* asked for, and has not called the second.
C13_Witness ==
    /\ Made("get_gui") /\ last.raised = "WidgetError"
    /\ Len(last.out.calls) = 1
    /\ Len(Matched(last.args)) = 2

\* get_gui has raised the error of the second of two widget functions, after
\* calling the first.
C13_WitnessSecond ==
    /\ Made("get_gui") /\ last.raised = "WidgetError"
    /\ Len(last.out.calls) = 2

\* The widget function stored for the toolkit under the toolkey in the
\* registry reg, if there is one.
Stored(reg, toolkey, toolkit) ==
    IF toolkey \in DOMAIN reg /\ toolkit \in Keys(reg[toolkey])
    THEN Lookup(reg[toolkey], toolkit)
    ELSE NoName

\* C14: applying a decorator of register_widget(b, k) to a function never
\* fails, whether or not b has a widget under k already: afterwards k holds
\* for b that function and no other item, and every other pair of a toolkey
\* and a toolkit holds what it held; and a get_gui call only ever calls the
\* function that is stored at the time of the call.
C14_DecoratorOverwrites ==
    [][ /\ last'.op = "decorator" =>
             LET k == last'.args.toolkey
                 b == last'.args.toolkit
             IN  /\ last'.raised = "none"
                 /\ DOMAIN UI_REGISTRY' = DOMAIN UI_REGISTRY
                 /\ Cardinality({i \in 1..Len(UI_REGISTRY'[k]) :
                                    UI_REGISTRY'[k][i].tk = b}) = 1
                 /\ Stored(UI_REGISTRY', k, b) = last'.args.f
                 /\ last'.args.replaced = Stored(UI_REGISTRY, k, b)
                 /\ \A k2 \in DOMAIN UI_REGISTRY, b2 \in Toolkits :
                       (k2 # k \/ b2 # b) =>
                          Stored(UI_REGISTRY', k2, b2) = Stored(UI_REGISTRY, k2, b2)
                 /\ \A k2 \in DOMAIN UI_REGISTRY :
                       Len(UI_REGISTRY'[k2]) = Cardinality(Keys(UI_REGISTRY'[k2]))
        /\ last'.op = "get_gui" =>
             \A i \in 1..Len(last'.out.calls) :
                last'.out.calls[i].f =
                   Stored(UI_REGISTRY, last'.args.toolkey, last'.out.calls[i].tk)
      ]_vars

\* A decorator has replaced the widget function f of its toolkit by g, and
\* the toolkey holds one item.
C14_Witness ==
    /\ Made("decorator")
    /\ last.args.replaced = "f" /\ last.args.f = "g"
    /\ Len(UI_REGISTRY[last.args.toolkey]) = 1
    /\ UI_REGISTRY[last.args.toolkey][1] = [tk |-> last.args.toolkit, f |-> "g"]

\* C15: no step removes a toolkey from UI_REGISTRY, a toolkit from
\* TOOLKIT_REGISTRY, or the widget of a toolkit from the dict of a toolkey.
C15_RegistriesOnlyGrow ==
    [][ /\ DOMAIN UI_REGISTRY \subseteq DOMAIN UI_REGISTRY'
        /\ TOOLKIT_REGISTRY \subseteq TOOLKIT_REGISTRY'
        /\ \A k \in DOMAIN UI_REGISTRY :
              Keys(UI_REGISTRY[k]) \subseteq Keys(UI_REGISTRY'[k]) ]_vars

\* A decorator has stored the widget of a second toolkit under a toolkey
\* that the caller registered, and the first is still there.
C15_Witness ==
    /\ Made("decorator")
    /\ last.args.toolkey = "custom"
    /\ Len(UI_REGISTRY["custom"]) = 2
    /\ UI_REGISTRY["custom"][2].tk = last.args.toolkit
    /\ Cardinality(TOOLKIT_REGISTRY) = 2

\* C16, as claimed: when the module has been imported UI_REGISTRY has no
\* toolkey and TOOLKIT_REGISTRY no toolkit, so that register_toolkey
\* succeeds for every toolkey, "load" too.
C16_EmptyAfterImport ==
    Made("import") =>
       /\ DOMAIN UI_REGISTRY = {}
       /\ TOOLKIT_REGISTRY = {}
       /\ \A k \in Toolkeys : register_toolkey(UI_REGISTRY, k).raised = "none"

\* C16, amended: the two registries are created empty, and the module
\* registers three toolkeys itself before it has finished loading: when it
\* has been imported UI_REGISTRY holds "interactive_range_selector",
\* "navigation_sliders" and "load", each with an empty dict, and
\* TOOLKIT_REGISTRY is empty; register_toolkey then succeeds for every other
\* toolkey, and register_toolkey("load") raises NameError whenever it is
\* called.
C16_ModuleToolkeysAfterImport ==
    /\ ~loaded => DOMAIN UI_REGISTRY = {} /\ TOOLKIT_REGISTRY = {}
    /\ Made("import") =>
          /\ DOMAIN UI_REGISTRY =
                {"interactive_range_selector", "navigation_sliders", "load"}
          /\ \A k \in DOMAIN UI_REGISTRY : Len(UI_REGISTRY[k]) = 0
          /\ TOOLKIT_REGISTRY = {}
          /\ \A k \in Toolkeys :
                register_toolkey(UI_REGISTRY, k).raised =
                   IF k = "load" THEN "NameError" ELSE "none"
    /\ (Made("register_toolkey") /\ last.args.toolkey = "load") =>
          last.raised = "NameError"

\* The first call after the import was register_toolkey("load"), and it has
\* raised NameError.
C16_Witness ==
    /\ Made("register_toolkey") /\ last.args.toolkey = "load"
    /\ last.raised = "NameError"
    /\ DOMAIN UI_REGISTRY =
          {"interactive_range_selector", "navigation_sliders", "load"}
    /\ TOOLKIT_REGISTRY = {} /\ decorators = {}

\* C17: a get_gui call, made directly or through the gui method of a class,
\* leaves UI_REGISTRY and TOOLKIT_REGISTRY as they were, whatever it returns
\* or raises: for a toolkey that is not registered it creates no dict.
C17_GetGuiReadsOnly ==
    [][ last'.op \in {"get_gui", "gui"} =>
           /\ UI_REGISTRY' = UI_REGISTRY
           /\ TOOLKIT_REGISTRY' = TOOLKIT_REGISTRY ]_vars

\* get_gui has raised NotImplementedError for a toolkey that is not
\* registered, and the toolkey still is not.
C17_Witness ==
    /\ Made("get_gui")
    /\ last.out.why = "no_ui_registered"
    /\ last.args.toolkey \notin DOMAIN UI_REGISTRY

\* C18: with a toolkit registered and a toolkey that has a widget, get_gui
\* with an empty iterable as `toolkit` raises no ValueError, calls no widget
\* function, and raises the NotImplementedError "toolkits not available"
\* that names the toolkits of the toolkey; it does not return None as it
\* does when the preferences enable nothing.
C18_EmptyIterableUnavailable ==
    (Made("get_gui") /\ TOOLKIT_REGISTRY # {}
     /\ last.args.toolkit.shape = "iter" /\ last.args.toolkit.names = <<>>
     /\ WidgetToolkits(last.args.toolkey) # {}) =>
       /\ last.raised = "NotImplementedError"
       /\ last.out.why = "toolkits_not_available"
       /\ last.out.available = WidgetToolkits(last.args.toolkey)
       /\ last.out.calls = <<>>

\* get_gui(toolkit=[]) has raised it for a toolkey with a widget.
C18_Witness ==
    /\ Made("get_gui")
    /\ last.args.toolkit.shape = "iter" /\ last.args.toolkit.names = <<>>
    /\ WidgetToolkits(last.args.toolkey) # {}
    /\ last.out.why = "toolkits_not_available"

\* The toolkits whose preference is set.
PrefEnabled(prefs) == {tk \in Toolkits : prefs[tk]}

\* C19: with `toolkit` None get_gui never raises ValueError, whether or not
\* the toolkits the preferences enable are in TOOLKIT_REGISTRY; and when a
\* toolkit is registered and the preferences enable only toolkits without a
\* widget under the toolkey, it calls no widget function and raises the
\* NotImplementedError "no user interface registered" if the toolkey has no
\* widget and "toolkits not available" if it has some.
C19_PreferencesNotValidated ==
    (Made("get_gui") /\ last.args.toolkit.shape = "none") =>
       /\ last.raised # "ValueError"
       /\ (/\ TOOLKIT_REGISTRY # {}
           /\ PrefEnabled(last.args.prefs) # {}
           /\ PrefEnabled(last.args.prefs)
                 \cap WidgetToolkits(last.args.toolkey) = {}) =>
             /\ last.raised = "NotImplementedError"
             /\ last.out.why = IF WidgetToolkits(last.args.toolkey) = {}
                               THEN "no_ui_registered"
                               ELSE "toolkits_not_available"
             /\ last.out.calls = <<>>

\* The preferences enable one toolkit, which is not in TOOLKIT_REGISTRY; the
\* toolkey has a widget of another toolkit, and get_gui(toolkit=None) has
\* raised "toolkits not available".
C19_Witness ==
    /\ Made("get_gui") /\ last.args.toolkit.shape = "none"
    /\ PrefEnabled(last.args.prefs) # {}
    /\ PrefEnabled(last.args.prefs) \cap TOOLKIT_REGISTRY = {}
    /\ WidgetToolkits(last.args.toolkey) # {}
    /\ last.out.why = "toolkits_not_available"

\* C20: every toolkit that has a widget under some toolkey is in
\* TOOLKIT_REGISTRY, and every closure register_widget has returned is for a
\* registered toolkey and a toolkit in TOOLKIT_REGISTRY, so that widgets are
\* stored under registered toolkeys only; hence get_gui on a toolkey that
\* has a widget never raises ImportError, and get_gui with a `toolkit`
\* argument that names only toolkits with a widget under the toolkey never
\* raises ValueError.
C20_WidgetToolkitsAreRegistered ==
    /\ \A k \in DOMAIN UI_REGISTRY : Keys(UI_REGISTRY[k]) \subseteq TOOLKIT_REGISTRY
    /\ \A d \in decorators :
          d.toolkey \in DOMAIN UI_REGISTRY /\ d.toolkit \in TOOLKIT_REGISTRY
    /\ (Made("get_gui") /\ WidgetToolkits(last.args.toolkey) # {}) =>
          /\ last.raised # "ImportError"
          /\ (/\ Explicit(last.args.toolkit)
              /\ Named(last.args.toolkit) \subseteq WidgetToolkits(last.args.toolkey)) =>
                last.raised # "ValueError"

\* get_gui(display=False) with a string that names a toolkit with a widget
\* under the toolkey has returned the widget of that toolkit.
C20_Witness ==
    /\ Made("get_gui") /\ last.args.toolkit.shape = "str"
    /\ last.args.toolkit.name \in WidgetToolkits(last.args.toolkey)
    /\ last.raised = "none" /\ last.out.returned = "widgets"
    /\ last.args.toolkit.name \in DOMAIN last.out.widgets

====
